---- MODULE Spec2Model ----
(***************************************************************************)
(* Model of one run of the MDView installer (src/mdview_installer.py):     *)
(* target selection (get_install_location), conflict check                 *)
(* (should_install_to_location over find_existing_mdview), dependency      *)
(* installation, the artifact write (install_mdview), PATH registration    *)
(* (update_user_path) and the test-file step of main().                    *)
(*                                                                         *)
(* The run is modelled on a Unix-like platform (sys.platform != "win32").  *)
(* A directory is known by its path; its state in the filesystem is        *)
(*   missing : number of trailing path components that do not exist        *)
(*             (0 = the directory exists, 1 = only the directory itself    *)
(*             is missing, 2 = it and its parent are missing, ...)         *)
(*   aw      : whether the nearest existing ancestor (the directory        *)
(*             itself when it exists) is writable by the current user      *)
(*   file    : what sits at <dir>/mdview                                    *)
(***************************************************************************)
EXTENDS Integers, Sequences, FiniteSets, TLC

\* ------------------------------------------------------------------ paths
LocalBin    == "~/.local/bin"
HomeBin     == "~/bin"
DotBin      == "~/.bin"
UsrLocalBin == "/usr/local/bin"
OptLocalBin == "/opt/local/bin"
UsrBin      == "/usr/bin"
SlashBin    == "/bin"
Cwd         == "<cwd>"
Custom      == "/srv/tools"
CwdInstall  == "<cwd>/mdview_install"

Dirs == {LocalBin, HomeBin, DotBin, UsrLocalBin, OptLocalBin, UsrBin, Cwd,
         Custom, CwdInstall}

NoDir == "<none>"

\* ----------------------------------------------------------------- bounds
\* deepest chain of missing path components of a directory
MaxMissing == 3
\* most copies of mdview present on the host when the run starts
MaxInstalled == 2
\* most runs of the installer, one after the other, on the same host
MaxRuns == 2

\* -------------------------------------------------------- file contents
Absent  == "absent"
Old     == "old"        \* a copy that was there before the run
New     == "new"        \* exactly create_mdview_script()
Partial == "partial"    \* truncated by open(..., 'w'), write not completed

\* ------------------------------------------------------------ user input
Interrupt == "<interrupt>"     \* EOFError or KeyboardInterrupt from input()

\* answers typed at the numbered pick; "4" is len(options) + 1
PickInputs == {"1", "2", "+2", "3", "4", "0", "5", "2.0", "abc", "", Interrupt}
\* answers typed at "Enter the installation path: "
CustomInputs == {Custom, Cwd, "", Interrupt}
\* answers typed at a yes/no prompt, after strip().lower()
YesNoInputs == {"y", "yes", "n", "no", "", "maybe", Interrupt}
\* values of --path
PathArgs == {Custom, UsrLocalBin}

VARIABLES
    pc,              \* position of main()
    auto_install,    \* args.auto
    install_path,    \* args.path, NoDir when not given
    force,           \* args.force
    no_deps,         \* args.no_deps
    no_path_update,  \* args.no_path_update
    fs,              \* the directories and <dir>/mdview
    envPATH,         \* the directories of os.environ['PATH'], in order
    pipxListed,      \* pipx is available and `pipx list --short` names mdview
    config,          \* the shell config file picked by detect_shell()
    otherWrites,     \* writes outside fs/config: pip packages, the test file
    install_dir,     \* result of get_install_location
    needs_sudo,      \* result of get_install_location
    existing_installations, \* result of the last find_existing_mdview()
    hist,            \* what the run has done so far (bookkeeping)
    exitCode         \* process exit status, -1 while running

vars == <<pc, auto_install, install_path, force, no_deps, no_path_update,
          fs, envPATH, pipxListed, config, otherWrites, install_dir,
          needs_sudo, existing_installations, hist, exitCode>>

args == <<auto_install, install_path, force, no_deps, no_path_update>>
env  == <<envPATH, pipxListed>>

\* ------------------------------------------------------------ filesystem
DirState(m, w, f) == [missing |-> m, aw |-> w, file |-> f]

exists(f, d) == f[d].missing = 0

\* <dir>/mdview exists and is a file
is_file(f, d) == f[d].missing = 0 /\ f[d].file # Absent

Max(a, b) == IF a > b THEN a ELSE b

\* check_directory_writable(p) where p is the directory d (up = 0) or its
\* parent (up = 1): an existing path is tested with os.access; for a missing
\* path only the immediate parent is looked at.
check_directory_writable(f, d, up) ==
    LET m == Max(f[d].missing - up, 0) IN
    IF m = 0 THEN f[d].aw
    ELSE IF m >= 2 THEN FALSE
    ELSE f[d].aw

\* the argument the callers in get_install_location pass:
\* path.parent if not path.exists() else path
ProbeTarget(f, d) ==
    check_directory_writable(f, d, IF exists(f, d) THEN 0 ELSE 1)

\* Path.mkdir(parents=True, exist_ok=True) raises PermissionError/OSError
MkdirFails(f, d) == f[d].missing > 0 /\ ~f[d].aw

\* a slip that creates the recommended user directory along with the target
Mkdir_user_dir_too(f, d) ==
    [f EXCEPT ![d].missing = 0, !["~/.local/bin"].missing = 0]

Mkdir(f, d) == [f EXCEPT ![d].missing = 0]


\* --------------------------------------------------------------- scanner
\* a slip that leaves the per-user directories out of the list
common_dirs_system_only == <<UsrLocalBin, UsrBin, OptLocalBin>>

\* common_dirs of find_existing_mdview (each is the directory of .../mdview)
common_dirs == <<UsrLocalBin, UsrBin, OptLocalBin, LocalBin, HomeBin, DotBin>>

Range(s) == {s[i] : i \in 1..Len(s)}

\* shutil.which("mdview"): the first directory of PATH that holds the file
RECURSIVE WhichFrom(_, _, _)
WhichFrom(f, P, i) ==
    IF i > Len(P) THEN NoDir
    ELSE IF is_file(f, P[i]) THEN P[i]
    ELSE WhichFrom(f, P, i + 1)

shutil_which(f, P) == WhichFrom(f, P, 1)

\* the loop over common_dirs: a hit is added unless its path is already there
RECURSIVE ScanCommon(_, _, _)
ScanCommon(f, found, i) ==
    IF i > Len(common_dirs) THEN found
    ELSE LET d == common_dirs[i] IN
         IF is_file(f, d) /\ d \notin Range(found)
         THEN ScanCommon(f, Append(found, d), i + 1)
         ELSE ScanCommon(f, found, i + 1)

\* pipx keeps its executable at ~/.local/bin/mdview
find_pipx_mdview(f, px) ==
    IF px /\ is_file(f, LocalBin) THEN <<LocalBin>> ELSE <<>>

\* the order the --help epilog gives for auto mode: "Auto mode will try (in
\* order)" ~/.local/bin, ~/bin, ~/.bin, ./mdview_install
documented_auto_order == <<LocalBin, HomeBin, DotBin, CwdInstall>>

\* the list of found installations, each named by the directory of its path
find_existing_mdview(f, P, px) ==
    LET inPath == shutil_which(f, P)
        first  == IF inPath # NoDir THEN <<inPath>> ELSE <<>>
    IN  ScanCommon(f, first, 1) \o find_pipx_mdview(f, px)

\* a slip that also asks when several copies were found elsewhere
target_exists_or_several(found, target) ==
    (\E i \in 1..Len(found) : found[i] = target) \/ Len(found) >= 2

\* a slip that looks at the first hit only
target_exists_first(found, target) == Len(found) > 0 /\ found[1] = target

\* a slip that asks whenever any copy was found (as prompt_reinstall does)
target_exists_any(found, target) == Len(found) > 0

\* target_exists of should_install_to_location
target_exists(found, target) == \E i \in 1..Len(found) : found[i] = target

\* a slip that runs the conflict check whatever --force says
conflict_check_skipped_never(forceMode) == FALSE

\* main(): `if not args.force:` guards the only call of the conflict check
conflict_check_skipped(forceMode) == forceMode

\* a slip that accepts only 'n' as a refusal and asks again on 'no'
confirm_result_no_again(response) ==
    IF response = Interrupt THEN "cancel"
    ELSE IF response \in {"y", "yes"} THEN "proceed"
    ELSE IF response \in {"", "n"} THEN "cancel"
    ELSE "again"

\* a slip that returns True from the except clause
confirm_result_interrupt_yes(response) ==
    IF response = Interrupt THEN "proceed"
    ELSE IF response \in {"y", "yes"} THEN "proceed"
    ELSE IF response \in {"", "n", "no"} THEN "cancel"
    ELSE "again"

\* a slip that compares the answer with nothing it can be, so that the loop
\* is never left
confirm_result_always_again(response) == "again"

\* a slip that takes the empty answer as yes, as a [Y/n] prompt would
confirm_result_default_yes(response) ==
    IF response = Interrupt THEN "cancel"
    ELSE IF response \in {"", "y", "yes"} THEN "proceed"
    ELSE IF response \in {"n", "no"} THEN "cancel"
    ELSE "again"

\* a slip that leaves the interrupt out of the except clause's return False
confirm_result_interrupt_again(response) ==
    IF response = Interrupt THEN "again"
    ELSE IF response \in {"y", "yes"} THEN "proceed"
    ELSE IF response \in {"", "n", "no"} THEN "cancel"
    ELSE "again"

\* what should_install_to_location makes of an answer to
\* "Overwrite existing installation? [y/N]: "
confirm_result(response) ==
    IF response = Interrupt THEN "cancel"
    ELSE IF response \in {"y", "yes"} THEN "proceed"
    ELSE IF response \in {"", "n", "no"} THEN "cancel"
    ELSE "again"

\* a slip that takes the empty answer as no, as a [y/N] prompt would
path_append_wanted_empty_no(answer) ==
    LET response == IF answer = Interrupt THEN "y" ELSE answer IN
    response \notin {"n", "no"} /\ response \in {"y", "yes"}

\* what update_user_path makes of an answer to "Add it to <config>? [Y/n]: ":
\* n/no return False at once, an interrupt becomes 'y', and add_to_path is
\* called for '', y and yes only
path_append_wanted(answer) ==
    LET response == IF answer = Interrupt THEN "y" ELSE answer IN
    response \notin {"n", "no"} /\ response \in {"", "y", "yes"}

\* a slip that asks before touching the shell config even with --auto
path_prompt_needed_always(auto_mode) == TRUE

\* update_user_path: `if auto_mode:` answers 'y' itself, else the user is asked
path_prompt_needed(auto_mode) == ~auto_mode

\* ------------------------------------------------------- interactive pick
system_candidates == <<UsrLocalBin, OptLocalBin, UsrBin>>

RECURSIVE FirstExisting(_, _)
FirstExisting(f, i) ==
    IF i > Len(system_candidates) THEN UsrLocalBin
    ELSE IF exists(f, system_candidates[i]) THEN system_candidates[i]
    ELSE FirstExisting(f, i + 1)

\* options offered on a Unix-like platform
options(f) == <<LocalBin, FirstExisting(f, 1), Cwd>>

\* a slip that takes the empty answer as the recommended first option
IntOf_empty_is_one(s) ==
    CASE s = "0" -> 0 [] s = "1" -> 1 [] s = "2" -> 2 [] s = "3" -> 3
      [] s = "4" -> 4 [] s = "5" -> 5 [] s = "+2" -> 2 [] s = "" -> 1
      [] OTHER -> -1

\* int(choice): the number typed (a sign is allowed), or -1 for ValueError
IntOf(s) ==
    CASE s = "0" -> 0 [] s = "1" -> 1 [] s = "2" -> 2 [] s = "3" -> 3
      [] s = "4" -> 4 [] s = "5" -> 5 [] s = "+2" -> 2 [] OTHER -> -1

\* ------------------------------------------------------------ shell config
\* a slip that leaves /usr/local/bin out of the list
system_dirs_short == {OptLocalBin, UsrBin, SlashBin}

system_dirs == {UsrLocalBin, OptLocalBin, UsrBin, SlashBin}

\* a slip that stops reading after the first line of the file
is_path_in_config_first_line(c, d) ==
    c.exists /\ Len(c.lines) > 0 /\ c.lines[1] = d

is_path_in_config(c, d) == c.exists /\ d \in Range(c.lines)

add_to_path(c, d) == [exists |-> TRUE, lines |-> Append(c.lines, d)]

\* ------------------------------------------------------------------- Init
Existing(w, f)  == DirState(0, w, f)
Missing(m, w)   == DirState(m, w, Absent)

InitDirStates(d) ==
    CASE d = LocalBin    -> {Existing(TRUE, Absent), Existing(TRUE, Old),
                             Missing(1, TRUE), Missing(MaxMissing, FALSE)}
      [] d = Custom      -> {Existing(TRUE, Absent), Existing(TRUE, Old),
                             Missing(MaxMissing, TRUE), Missing(1, FALSE)}
      [] d = Cwd         -> {Existing(TRUE, Absent), Existing(TRUE, Old)}
      [] d = UsrLocalBin -> {Existing(FALSE, Absent), Existing(TRUE, Old),
                             Missing(1, FALSE)}
      [] d = OptLocalBin -> {Missing(1, FALSE)}
      [] d = UsrBin      -> {Existing(FALSE, Absent)}
      [] d = HomeBin     -> {Missing(1, TRUE), Existing(TRUE, Old)}
      [] d = DotBin      -> {Missing(1, TRUE)}
      [] d = CwdInstall  -> {Missing(1, TRUE)}

Installed(f) == {d \in Dirs : is_file(f, d)}

\* the hosts a run may start on: each directory in one of its states, with
\* at most MaxInstalled copies of mdview
InitFs ==
    {f \in {[d \in Dirs |->
               CASE d = LocalBin    -> a
                 [] d = Custom      -> b
                 [] d = Cwd         -> c
                 [] d = UsrLocalBin -> u
                 [] d = HomeBin     -> h
                 [] OTHER -> CHOOSE x \in InitDirStates(d) : TRUE] :
             a \in InitDirStates(LocalBin), b \in InitDirStates(Custom),
             c \in InitDirStates(Cwd), u \in InitDirStates(UsrLocalBin),
             h \in InitDirStates(HomeBin)} :
       Cardinality(Installed(f)) <= MaxInstalled}

PathEnvs == {<<LocalBin, UsrLocalBin, UsrBin>>,
             <<Custom, Cwd, UsrBin>>}

InitConfigs == {[exists |-> FALSE, lines |-> <<>>],
                [exists |-> TRUE,  lines |-> <<LocalBin>>]}

InitHist == [probed       |-> FALSE,   \* check_directory_writable ran on the target
             mkdirFailed  |-> FALSE,   \* mkdir of the target raised
             mkdirMade    |-> FALSE,   \* mkdir of the target created it
             scanCalls    |-> 0,       \* calls of find_existing_mdview
             prompts      |-> {},      \* prompts shown
             choice       |-> "none",  \* last answer at "Enter your choice"
             custom       |-> "none",  \* answer at "Enter the installation path" in
                                       \* the same pass of the loop
             overwrite    |-> "none",  \* answer given at the overwrite prompt
             cancelled    |-> "none",  \* prompt at which the user cancelled
             interrupted  |-> "none",  \* prompt that received an interrupt
             decision     |-> "none",  \* Proceed, ProceedOverwrite, Abort
             deps         |-> "none",  \* skipped, ok, failed
             before       |-> "none",  \* <target>/mdview when install_mdview began
             install      |-> "none",  \* ok, permission, failed
             returned     |-> "none",  \* what install_mdview returned
             pathCalled   |-> FALSE,   \* update_user_path was called
             pathAnswer   |-> "none",  \* answer given at the PATH prompt
             appendTried  |-> FALSE,   \* add_to_path was called
             path_updated |-> FALSE,   \* its result
             run          |-> 1,       \* which run of the installer this is
             firstDir     |-> "none",  \* where the run before installed
             first        |-> "none",  \* <firstDir>/mdview as that run left it
             fs0          |-> <<>>,    \* fs when the run started
             config0      |-> <<>>]    \* config when the run started

Init ==
    /\ pc = "select"
    /\ auto_install \in BOOLEAN
    /\ install_path \in {NoDir} \cup PathArgs
    /\ force \in BOOLEAN
    /\ no_deps \in BOOLEAN
    /\ no_path_update \in BOOLEAN
    /\ fs \in InitFs
    /\ envPATH \in PathEnvs
    /\ pipxListed \in BOOLEAN
    /\ config \in InitConfigs
    /\ otherWrites = {}
    /\ install_dir = NoDir
    /\ needs_sudo = FALSE
    /\ existing_installations = <<>>
    /\ hist = [InitHist EXCEPT !.fs0 = fs, !.config0 = config]
    /\ exitCode = -1


\* ---------------------------------------------------------------- actions
Exit(code) == /\ pc' = "done"
              /\ exitCode' = code

\* the tail shared by every returning path of get_install_location: the
\* optional writability probe, then mkdir(parents=True, exist_ok=True)
ResolveWith(h, d, probe) ==
    /\ install_dir' = d
    /\ IF MkdirFails(fs, d)
       THEN /\ fs' = fs
            /\ needs_sudo' = TRUE
       ELSE /\ fs' = Mkdir(fs, d)
            /\ needs_sudo' = IF probe THEN ~ProbeTarget(fs, d) ELSE FALSE
    /\ hist' = [h EXCEPT !.probed = probe,
                         !.mkdirFailed = MkdirFails(fs, d),
                         !.mkdirMade = ~MkdirFails(fs, d) /\ ~exists(fs, d)]
    /\ pc' = "check"
    /\ UNCHANGED <<args, env, config, otherWrites, existing_installations,
                   exitCode>>

Resolve(d, probe) == ResolveWith(hist, d, probe)

\* a slip that tests auto_install before install_path
get_install_location_auto_first ==
    /\ pc = "select"
    /\ IF auto_install THEN Resolve(LocalBin, FALSE)
       ELSE IF install_path # NoDir THEN Resolve(install_path, TRUE)
       ELSE /\ pc' = "pick"
            /\ hist' = [hist EXCEPT !.prompts = @ \cup {"pick"}]
            /\ UNCHANGED <<args, env, fs, config, otherWrites, install_dir,
                           needs_sudo, existing_installations, exitCode>>

\* get_install_location up to its first blocking read: --path, then --auto,
\* else the numbered menu is shown
get_install_location ==
    /\ pc = "select"
    /\ IF install_path # NoDir THEN Resolve(install_path, TRUE)
       ELSE IF auto_install THEN Resolve(LocalBin, FALSE)
       ELSE /\ pc' = "pick"
            /\ hist' = [hist EXCEPT !.prompts = @ \cup {"pick"}]
            /\ UNCHANGED <<args, env, fs, config, otherWrites, install_dir,
                           needs_sudo, existing_installations, exitCode>>

\* one pass of the while-loop of get_install_location: "Enter your choice"
PickChoice ==
    /\ pc = "pick"
    /\ \E choice \in PickInputs :
         IF choice = Interrupt
         THEN /\ Exit(0)
              /\ hist' = [hist EXCEPT !.cancelled = "pick",
                                      !.interrupted = "pick",
                                      !.choice = choice,
                                      !.decision = "Abort"]
              /\ UNCHANGED <<args, env, fs, config, otherWrites, install_dir,
                             needs_sudo, existing_installations>>
         ELSE LET choice_num == IntOf(choice) IN
              IF 1 <= choice_num /\ choice_num <= Len(options(fs))
              THEN ResolveWith([hist EXCEPT !.choice = choice, !.custom = "none"],
                               options(fs)[choice_num], TRUE)
              ELSE IF choice_num = Len(options(fs)) + 1
              THEN /\ pc' = "custom"
                   /\ hist' = [hist EXCEPT !.prompts = @ \cup {"custom"},
                                           !.choice = choice,
                                           !.custom = "none"]
                   /\ UNCHANGED <<args, env, fs, config, otherWrites,
                                  install_dir, needs_sudo,
                                  existing_installations, exitCode>>
              ELSE /\ hist' = [hist EXCEPT !.choice = choice, !.custom = "none"]
                   \* "Invalid choice", asked again
                   /\ UNCHANGED <<pc, args, env, fs, config, otherWrites,
                                  install_dir, needs_sudo,
                                  existing_installations, exitCode>>

\* "Enter the installation path: "
EnterCustomPath ==
    /\ pc = "custom"
    /\ \E custom_path \in CustomInputs :
         IF custom_path = Interrupt
         THEN /\ Exit(0)
              /\ hist' = [hist EXCEPT !.cancelled = "custom",
                                      !.interrupted = "custom",
                                      !.custom = custom_path,
                                      !.decision = "Abort"]
              /\ UNCHANGED <<args, env, fs, config, otherWrites, install_dir,
                             needs_sudo, existing_installations>>
         ELSE IF custom_path # ""
         THEN ResolveWith([hist EXCEPT !.custom = custom_path],
                          custom_path, TRUE)
         ELSE /\ pc' = "pick"              \* "Invalid choice", asked again
              /\ hist' = [hist EXCEPT !.custom = custom_path]
              /\ UNCHANGED <<args, env, fs, config, otherWrites, install_dir,
                             needs_sudo, existing_installations, exitCode>>

\* main(): `if not args.force:` and should_install_to_location up to its
\* blocking read
should_install_to_location ==
    /\ pc = "check"
    /\ IF conflict_check_skipped(force)
       THEN /\ pc' = "deps"
            /\ hist' = [hist EXCEPT !.decision = "Proceed"]
            /\ UNCHANGED existing_installations
       ELSE LET found == find_existing_mdview(fs, envPATH, pipxListed) IN
            /\ existing_installations' = found
            /\ IF target_exists(found, install_dir)
               THEN /\ pc' = "confirm"
                    /\ hist' = [hist EXCEPT !.scanCalls = @ + 1,
                                            !.prompts = @ \cup {"overwrite"}]
               ELSE /\ pc' = "deps"
                    /\ hist' = [hist EXCEPT !.scanCalls = @ + 1,
                                            !.decision = "Proceed"]
    /\ UNCHANGED <<args, env, fs, config, otherWrites, install_dir,
                   needs_sudo, exitCode>>

\* "Overwrite existing installation? [y/N]: "; False makes main sys.exit(0)
ConfirmOverwrite ==
    /\ pc = "confirm"
    /\ \E response \in YesNoInputs :
         LET r == confirm_result(response)
             h == [hist EXCEPT !.overwrite = response,
                               !.interrupted = IF response = Interrupt
                                               THEN "overwrite" ELSE @]
         IN  IF r = "proceed"
             THEN /\ pc' = "deps"
                  /\ hist' = [h EXCEPT !.decision = "ProceedOverwrite"]
                  /\ UNCHANGED exitCode
             ELSE IF r = "cancel"
             THEN /\ Exit(0)
                  /\ hist' = [h EXCEPT !.cancelled = "overwrite",
                                       !.decision = "Abort"]
             ELSE /\ hist' = h                    \* asked again
                  /\ UNCHANGED <<pc, exitCode>>
    /\ UNCHANGED <<args, env, fs, config, otherWrites, install_dir,
                   needs_sudo, existing_installations>>

\* a slip that reports the failed dependencies and goes on to the write
install_dependencies_goes_on ==
    /\ pc = "deps"
    /\ IF no_deps
       THEN /\ pc' = "install"
            /\ hist' = [hist EXCEPT !.deps = "skipped"]
            /\ UNCHANGED <<otherWrites, exitCode>>
       ELSE \E ok \in BOOLEAN :
              /\ pc' = "install"
              /\ hist' = [hist EXCEPT !.deps = IF ok THEN "ok" ELSE "failed"]
              /\ otherWrites' = IF ok THEN otherWrites \cup {"packages"}
                                ELSE otherWrites
              /\ UNCHANGED exitCode
    /\ UNCHANGED <<args, env, fs, config, install_dir, needs_sudo,
                   existing_installations>>

\* main(): `if not args.no_deps:` and install_dependencies, whose result is
\* the package manager's
install_dependencies ==
    /\ pc = "deps"
    /\ IF no_deps
       THEN /\ pc' = "install"
            /\ hist' = [hist EXCEPT !.deps = "skipped"]
            /\ UNCHANGED <<otherWrites, exitCode>>
       ELSE \E ok \in BOOLEAN :
              IF ok
              THEN /\ pc' = "install"
                   /\ hist' = [hist EXCEPT !.deps = "ok"]
                   /\ otherWrites' = otherWrites \cup {"packages"}
                   /\ UNCHANGED exitCode
              ELSE /\ Exit(1)
                   /\ hist' = [hist EXCEPT !.deps = "failed"]
                   /\ UNCHANGED otherWrites
    /\ UNCHANGED <<args, env, fs, config, install_dir, needs_sudo,
                   existing_installations>>


\* what the operating system can make of the three steps of install_mdview
IOFaults == {"none", "open", "write", "chmod"}

\* the outcome of install_mdview(install_dir, needs_sudo) on directory state
\* t under fault: the file left at <dir>/mdview and the branch taken
\* ("ok" returns True; "permission" and "failed" are the two except clauses)
install_mdview_outcome(t, fault) ==
    IF t.missing > 0
    THEN [file |-> t.file, result |-> "failed"]        \* FileNotFoundError
    ELSE IF ~t.aw
    THEN [file |-> t.file, result |-> "permission"]    \* open: PermissionError
    ELSE IF fault = "open"
    THEN [file |-> t.file, result |-> "failed"]        \* open: other OSError
    ELSE IF fault = "write"
    THEN [file |-> Partial, result |-> "failed"]       \* truncated, write raised
    ELSE IF fault = "chmod"
    THEN [file |-> New, result |-> "permission"]       \* os.chmod raised
    ELSE [file |-> New, result |-> "ok"]

\* a slip that reports success from the except clauses too
install_return_always_true(result) == "True"

\* the value install_mdview returns from each branch
install_return(result) == IF result = "ok" THEN "True" ELSE "False"

\* main(): `if install_mdview(install_dir, needs_sudo):` and the else branch,
\* which prints "Installation failed" and lets main return
install_mdview ==
    /\ pc = "install"
    /\ \E fault \in IOFaults :
         LET out == install_mdview_outcome(fs[install_dir], fault) IN
         /\ fs' = [fs EXCEPT ![install_dir].file = out.file]
         /\ hist' = [hist EXCEPT !.before = fs[install_dir].file,
                                 !.install = out.result,
                                 !.returned = install_return(out.result)]
         /\ IF install_return(out.result) = "True"
            THEN /\ pc' = "path"
                 /\ UNCHANGED exitCode
            ELSE Exit(0)
    /\ UNCHANGED <<args, env, config, otherWrites, install_dir, needs_sudo,
                   existing_installations>>

\* main(): `if not args.no_path_update:` and update_user_path up to its
\* blocking read; add_to_path may fail
update_user_path ==
    /\ pc = "path"
    /\ IF no_path_update
       THEN /\ pc' = "test"
            /\ UNCHANGED <<config, hist>>
       ELSE IF install_dir \in system_dirs
       THEN /\ pc' = "test"
            /\ hist' = [hist EXCEPT !.pathCalled = TRUE, !.path_updated = TRUE]
            /\ UNCHANGED config
       ELSE IF is_path_in_config(config, install_dir)
       THEN /\ pc' = "test"
            /\ hist' = [hist EXCEPT !.pathCalled = TRUE, !.path_updated = TRUE]
            /\ UNCHANGED config
       ELSE IF ~path_prompt_needed(auto_install)
       THEN \E added \in BOOLEAN :
              /\ pc' = "test"
              /\ config' = IF added THEN add_to_path(config, install_dir)
                           ELSE config
              /\ hist' = [hist EXCEPT !.pathCalled = TRUE,
                                      !.appendTried = TRUE,
                                      !.path_updated = added]
       ELSE /\ pc' = "pathprompt"
            /\ hist' = [hist EXCEPT !.pathCalled = TRUE,
                                    !.prompts = @ \cup {"path"}]
            /\ UNCHANGED config
    /\ UNCHANGED <<args, env, fs, otherWrites, install_dir, needs_sudo,
                   existing_installations, exitCode>>

\* "Add it to <config>? [Y/n]: " and the rest of update_user_path
PathPrompt ==
    /\ pc = "pathprompt"
    /\ \E answer \in YesNoInputs :
         LET h == [hist EXCEPT !.pathAnswer = answer,
                               !.interrupted = IF answer = Interrupt
                                               THEN "path" ELSE @]
         IN  /\ IF path_append_wanted(answer)
                THEN \E added \in BOOLEAN :
                       /\ config' = IF added
                                    THEN add_to_path(config, install_dir)
                                    ELSE config
                       /\ hist' = [h EXCEPT !.appendTried = TRUE,
                                            !.path_updated = added]
                ELSE /\ UNCHANGED config
                     /\ hist' = [h EXCEPT !.path_updated = FALSE]
             /\ pc' = "test"
    /\ UNCHANGED <<args, env, fs, otherWrites, install_dir, needs_sudo,
                   existing_installations, exitCode>>

\* main(): create_test_file and the closing messages
create_test_file ==
    /\ pc = "test"
    /\ otherWrites' = otherWrites \cup {"testfile"}
    /\ Exit(0)
    /\ UNCHANGED <<args, env, fs, config, install_dir, needs_sudo,
                   existing_installations, hist>>

Next ==
    \/ get_install_location
    \/ PickChoice
    \/ EnterCustomPath
    \/ should_install_to_location
    \/ ConfirmOverwrite
    \/ install_dependencies
    \/ install_mdview
    \/ update_user_path
    \/ PathPrompt
    \/ create_test_file

Spec == Init /\ [][Next]_vars

\* `python3 mdview_installer.py` started again with the same arguments on the
\* host a completed run (artifact installed) has left behind
Rerun ==
    /\ pc = "done"
    /\ hist.install = "ok"
    /\ hist.run < MaxRuns
    /\ pc' = "select"
    /\ install_dir' = NoDir
    /\ needs_sudo' = FALSE
    /\ existing_installations' = <<>>
    /\ exitCode' = -1
    /\ hist' = [InitHist EXCEPT !.fs0 = fs, !.config0 = config,
                                !.run = hist.run + 1,
                                !.firstDir = install_dir,
                                !.first = fs[install_dir].file]
    /\ UNCHANGED <<args, env, fs, config, otherWrites>>

NextRerun ==
    \/ Next
    \/ Rerun

SpecRerun == Init /\ [][NextRerun]_vars


\* ------------------------------------------------------------- properties
Terminal == pc = "done"

\* the installations the Scanner reports on the host the run started on
\* (target selection creates directories only, so the files are the same
\* when should_install_to_location scans)
Installations == Range(find_existing_mdview(hist.fs0, envPATH, pipxListed))

\* <dir>/mdview is the same file as when the run started, for every dir
FilesUntouched == \A d \in Dirs : fs[d].file = hist.fs0[d].file

\* nothing on the host differs from the start of the run
HostUntouched == fs = hist.fs0 /\ config = hist.config0 /\ otherWrites = {}

\* install_mdview opened <target>/mdview for writing (it was truncated)
Written == hist.install # "none" /\ fs[install_dir].file \in {New, Partial}

\* C1: without --force, when <target>/mdview is the path of an installation
\* the Scanner reports, no decision (Proceed, ProceedOverwrite or Abort) is
\* reached unless the overwrite prompt has been shown.
C1_ConfirmBeforeDecision ==
    (~force /\ install_dir \in Installations /\ hist.decision # "none")
        => "overwrite" \in hist.prompts

C1_Witness ==
    /\ ~force
    /\ install_dir \in Installations
    /\ hist.decision = "ProceedOverwrite"
    /\ "overwrite" \in hist.prompts

\* C2: without --force, whenever install_mdview writes over a file that was
\* already at <target>/mdview, the user answered yes at the overwrite prompt.
C2_NoSilentOverwrite ==
    (~force /\ Written /\ hist.before # Absent)
        => (hist.overwrite \in {"y", "yes"} /\ "overwrite" \in hist.prompts)

\* C3: with --force the Scanner is never called, the overwrite prompt is
\* never shown, and once a target is selected the run goes on with Proceed.
C3_ForceSkipsScan ==
    force =>
        /\ hist.scanCalls = 0
        /\ "overwrite" \notin hist.prompts
        /\ hist.cancelled # "overwrite"
        /\ (install_dir # NoDir /\ pc # "check") => hist.decision = "Proceed"

C3_Witness ==
    /\ force
    /\ install_dir # NoDir
    /\ is_file(hist.fs0, install_dir)
    /\ hist.install = "ok"
    /\ hist.scanCalls = 0

\* C4: after the answer n/no at the overwrite prompt the run has ended with
\* Abort, exit status 0, and no dependency install, artifact write, PATH
\* update or test file has happened.
C4_DeclineStopsRun ==
    hist.overwrite \in {"n", "no"} =>
        /\ Terminal /\ exitCode = 0
        /\ hist.decision = "Abort" /\ hist.cancelled = "overwrite"
        /\ hist.deps = "none" /\ hist.install = "none" /\ ~hist.pathCalled
        /\ FilesUntouched /\ config = hist.config0 /\ otherWrites = {}

C4_Witness ==
    /\ hist.overwrite = "no"
    /\ Terminal
    /\ install_dir \in Installations

C6_FailedInstallExitsNonZero ==
    (Terminal /\ hist.install \in {"permission", "failed"}) => exitCode > 0

\* C7: after install_mdview, <target>/mdview holds the full new content or
\* is exactly what it was before the call, and success means full content.
C7_NoPartialWrite ==
    hist.install # "none" =>
        /\ hist.install = "ok" => fs[install_dir].file = New
        /\ fs[install_dir].file \in {New, hist.before}

\* C8: the run reaches the write step only for a target whose directory
\* exists or was created and whose writability was probed during target
\* selection.
C8_WriteOnlyAfterProbeAndMkdir ==
    (pc = "install" \/ hist.install # "none")
        => (hist.probed /\ ~hist.mkdirFailed)

\* C9 as stated: until Proceed or ProceedOverwrite is reached nothing on
\* the host has been created or modified.
C9_NoEffectBeforeProceed ==
    hist.decision \notin {"Proceed", "ProceedOverwrite"} => HostUntouched

\* C9 amended: until Proceed or ProceedOverwrite is reached the only change
\* on the host is that the selected target directory may have been created;
\* no file, no other directory and no shell config is created or modified.
C9_OnlyTargetDirBeforeProceed ==
    hist.decision \notin {"Proceed", "ProceedOverwrite"} =>
        /\ config = hist.config0 /\ otherWrites = {}
        /\ \A d \in Dirs : d # install_dir => fs[d] = hist.fs0[d]
        /\ install_dir # NoDir =>
              fs[install_dir] \in {hist.fs0[install_dir],
                                   [hist.fs0[install_dir] EXCEPT !.missing = 0]}

C9_Witness ==
    /\ pc = "check"
    /\ hist.decision = "none"
    /\ hist.mkdirMade
    /\ fs # hist.fs0

\* C10: a run ended by user cancellation leaves the host exactly as it was:
\* no directory created, no artifact written, no shell config changed.
C10_CancelLeavesHostUntouched ==
    hist.cancelled # "none" => (Terminal /\ exitCode = 0 /\ HostUntouched)

C10_Witness ==
    /\ hist.cancelled = "overwrite"
    /\ hist.overwrite \in {"n", ""}
    /\ Terminal
    /\ HostUntouched

\* C11: for a path that does not exist, check_directory_writable answers
\* true whenever the nearest existing ancestor is writable, however many
\* intermediate directories are missing.
\* In get_install_location the probe is made on the parent of a missing
\* target; with two or more missing components that parent is itself a
\* path that does not exist, and needs_sudo is the negated answer.
C11_ProbeNearestAncestor ==
    (/\ install_dir # NoDir
     /\ hist.probed /\ ~hist.mkdirFailed
     /\ hist.fs0[install_dir].missing >= 2
     /\ hist.fs0[install_dir].aw)
        => (/\ check_directory_writable(hist.fs0, install_dir, 1)
            /\ ~needs_sudo)

\* no two entries of a list of installations name the same path
NoDuplicates(found) ==
    \A i, j \in 1..Len(found) : i # j => found[i] # found[j]

\* C12: the list returned by find_existing_mdview holds each installation
\* at most once, whichever search methods found it.
C12_ScanHasNoDuplicates ==
    hist.scanCalls > 0 => NoDuplicates(existing_installations)

\* C13: with --auto, no --path and no file at ~/.local/bin/mdview, the run
\* selects ~/.local/bin, reaches Proceed, and shows no prompt at all.
C13_AutoCleanTargetNoPrompt ==
    (auto_install /\ install_path = NoDir /\ ~is_file(hist.fs0, LocalBin)) =>
        /\ hist.prompts = {}
        /\ pc # "select" => install_dir = LocalBin
        /\ pc \notin {"select", "check"} => hist.decision = "Proceed"

C13_Witness ==
    /\ auto_install /\ install_path = NoDir /\ ~force
    /\ ~is_file(hist.fs0, LocalBin)
    /\ Installed(hist.fs0) # {}
    /\ hist.pathCalled /\ hist.appendTried
    /\ Terminal /\ hist.install = "ok"
    /\ hist.prompts = {}

\* the first directory of a list that check_directory_writable accepts
RECURSIVE FirstWritable(_, _, _)
FirstWritable(f, order, i) ==
    IF i > Len(order) THEN NoDir
    ELSE IF check_directory_writable(f, order[i], 0) THEN order[i]
    ELSE FirstWritable(f, order, i + 1)

\* C14: in auto mode the target is the first writable directory of the
\* documented order ~/.local/bin, ~/bin, ~/.bin, ./mdview_install.
C14_AutoFirstWritable ==
    (auto_install /\ install_path = NoDir /\ install_dir # NoDir) =>
        install_dir = FirstWritable(hist.fs0, documented_auto_order, 1)

\* C16: update_user_path for a directory of the system list returns True,
\* leaves the shell config as it was and shows no prompt, with and without
\* --auto.
C16_SystemDirShortCircuit ==
    (hist.pathCalled /\ install_dir \in {UsrLocalBin, OptLocalBin, UsrBin, SlashBin}) =>
        /\ pc # "pathprompt" /\ "path" \notin hist.prompts
        /\ hist.path_updated /\ ~hist.appendTried
        /\ config = hist.config0

C16_Witness ==
    /\ hist.pathCalled /\ install_dir = UsrLocalBin
    /\ auto_install
    /\ hist.path_updated
    /\ ~is_path_in_config(config, install_dir)

\* C19: a permission failure of install_mdview is never returned as the same
\* value as any other I/O failure.
C19_PermissionFailureDistinct ==
    hist.install = "permission" => hist.returned # install_return("failed")

\* C15: when the installer is run a second time with --auto (no --path, no
\* --force) after a completed first run, the second run shows the overwrite
\* prompt for the copy the first run wrote, and when it is accepted and the
\* second run completes, ~/.local/bin/mdview is what the first run left.
C15_SecondAutoRunConfirmsSameContent ==
    (hist.run >= 2 /\ auto_install /\ install_path = NoDir /\ ~force) =>
        /\ pc \notin {"select", "check"} => "overwrite" \in hist.prompts
        /\ hist.install = "ok" =>
              /\ hist.overwrite \in {"y", "yes"}
              /\ install_dir = hist.firstDir
              /\ fs[install_dir].file = hist.first

C15_Witness ==
    /\ hist.run = 2 /\ auto_install /\ install_path = NoDir /\ ~force
    /\ hist.install = "ok" /\ Terminal
    /\ hist.overwrite = "y"
    /\ hist.fs0[LocalBin].file = New
    /\ fs[LocalBin].file = New

\* ------------------------------------------- the scanner's helper functions
\* The functions below are called with outcomes of the subprocesses and file
\* reads they make; SpecFn calls each one once on every input of a bounded set.

NoVersion == "<no match>"
Unknown   == "unknown"
Raised    == "<raised>"

HelpVersion    == "2.0.1"   \* a "version 2.0.1" in the output of mdview -h
DunderVersion  == "1.4.0"   \* a __version__ = "1.4.0" in the file
CommentVersion == "1.2"     \* a "# Version: 1.2" in the file

\* outcomes of subprocess.run([mdview_path, "-h"], timeout=5): kind is how the
\* call ended, stdout whether it printed anything, match what the version
\* pattern finds in stdout + stderr
RunOutcomes ==
    [kind : {"exit0", "nonzero", "timeout", "oserror"},
     stdout : {"", "text"},
     match : {NoVersion, HelpVersion}]

\* outcomes of open(mdview_path).read(2000) and the two patterns searched
FileOutcomes ==
    [kind : {"text", "undecodable", "unreadable"},
     dunder : {NoVersion, DunderVersion},
     comment : {NoVersion, CommentVersion}]

\* what the file fallback of get_mdview_version gives
version_from_file(file) ==
    IF file.kind # "text" THEN Unknown
    ELSE IF file.dunder # NoVersion THEN file.dunder
    ELSE IF file.comment # NoVersion THEN file.comment
    ELSE Unknown

\* a slip that catches the failure of the call but not its timeout
get_mdview_version_timeout_escapes(run, file) ==
    IF run.kind = "timeout" THEN Raised
    ELSE IF run.kind = "exit0" /\ run.stdout # "" /\ run.match # NoVersion
    THEN run.match
    ELSE version_from_file(file)

get_mdview_version(run, file) ==
    IF run.kind = "exit0" /\ run.stdout # "" /\ run.match # NoVersion
    THEN run.match
    ELSE version_from_file(file)

\* outcomes of the three things done with pipx: shutil.which("pipx"),
\* pipx --version, pipx list --short (lists: a line of it names mdview)
PipxOutcomes ==
    [which : BOOLEAN,
     version : {"exit0", "nonzero", "timeout", "oserror"},
     list : {"exit0", "nonzero", "timeout"},
     lists : BOOLEAN]

is_pipx_available(p) == p.which /\ p.version = "exit0"

\* a slip that reads the output of pipx list without looking at how it ended
pipx_lists_mdview_any_status(p) == is_pipx_available(p) /\ p.lists

\* find_pipx_mdview reaches the line that looks for ~/.local/bin/mdview
pipx_lists_mdview(p) ==
    is_pipx_available(p) /\ p.list = "exit0" /\ p.lists

Platforms == {"linux", "darwin", "win32"}

WinUser == "~/AppData/Local/Programs/mdview"
WinSys  == "C:/Program Files/mdview"

\* a slip that puts the system directory first
candidates_system_first(platform) ==
    IF platform = "win32" THEN <<WinSys, WinUser, HomeBin, CwdInstall>>
    ELSE <<UsrLocalBin, HomeBin, LocalBin, DotBin, CwdInstall>>

\* candidates of find_writable_user_directory
candidates(platform) ==
    IF platform = "win32" THEN <<WinUser, HomeBin, CwdInstall>>
    ELSE <<HomeBin, LocalBin, DotBin, CwdInstall>>

\* the (path, ...) column of options in get_install_location
pick_options(platform, f) ==
    IF platform = "win32" THEN <<WinUser, WinSys, Cwd>>
    ELSE options(f)

\* the outcome of the loop over candidates from position i on
RECURSIVE FirstWritableCandidate(_, _, _)
FirstWritableCandidate(f, c, i) ==
    IF i > Len(c) THEN NoDir
    ELSE IF check_directory_writable(f, c[i], 0) THEN c[i]
    ELSE FirstWritableCandidate(f, c, i + 1)

\* the loop over the system directories: the first that exists or whose
\* parent probes writable, /usr/local/bin when there is none
RECURSIVE SystemFallback(_, _)
SystemFallback(f, i) ==
    IF i > Len(system_candidates) THEN UsrLocalBin
    ELSE LET s == system_candidates[i] IN
         IF exists(f, s) \/ check_directory_writable(f, s, 1) THEN s
         ELSE SystemFallback(f, i + 1)

\* a slip that probes the first candidate only
find_writable_user_directory_first_only(platform, f) ==
    LET c == candidates(platform) IN
    IF check_directory_writable(f, c[1], 0)
    THEN [dir |-> c[1], needs_sudo |-> FALSE]
    ELSE IF platform = "win32" THEN [dir |-> WinSys, needs_sudo |-> TRUE]
    ELSE [dir |-> SystemFallback(f, 1), needs_sudo |-> TRUE]

\* find_writable_user_directory(): (directory_path, needs_sudo)
find_writable_user_directory(platform, f) ==
    LET user == FirstWritableCandidate(f, candidates(platform), 1) IN
    IF user # NoDir THEN [dir |-> user, needs_sudo |-> FALSE]
    ELSE IF platform = "win32" THEN [dir |-> WinSys, needs_sudo |-> TRUE]
    ELSE [dir |-> SystemFallback(f, 1), needs_sudo |-> TRUE]

\* the directories find_writable_user_directory looks at
ProbeDirs == {WinUser, HomeBin, LocalBin, DotBin, CwdInstall,
              UsrLocalBin, OptLocalBin, UsrBin}

\* the states a per-user candidate may be in: there and writable or not, to
\* be created under a writable or read-only parent, or under a chain of
\* missing directories below a writable one
CandidateStates == {Existing(TRUE, Absent), Existing(FALSE, Absent),
                    Missing(1, TRUE), Missing(1, FALSE),
                    Missing(MaxMissing, TRUE)}

SystemStates == {Existing(FALSE, Absent), Missing(1, FALSE), Missing(1, TRUE)}

ProbeFs ==
    {[d \in ProbeDirs |->
        CASE d = WinUser     -> w
          [] d = HomeBin     -> h
          [] d = LocalBin    -> l
          [] d = DotBin      -> b
          [] d = CwdInstall  -> c
          [] d = UsrLocalBin -> u
          [] d = OptLocalBin -> o
          [] OTHER           -> Existing(FALSE, Absent)] :
     w \in CandidateStates, h \in CandidateStates, l \in CandidateStates,
     b \in CandidateStates, c \in CandidateStates,
     u \in SystemStates, o \in SystemStates}

\* shell_configs of detect_shell: shell name -> config files in order
shell_configs ==
    [bash |-> <<"~/.bashrc", "~/.bash_profile", "~/.profile">>,
     zsh  |-> <<"~/.zshrc", "~/.zprofile">>,
     fish |-> <<"~/.config/fish/config.fish">>,
     csh  |-> <<"~/.cshrc">>,
     tcsh |-> <<"~/.tcshrc", "~/.cshrc">>]

\* the files tried when the shell is not in the table
common_configs == <<"~/.zshrc", "~/.bashrc", "~/.profile">>

ConfigFiles == UNION {Range(shell_configs[s]) : s \in DOMAIN shell_configs}

\* pwd.getpwuid(os.getuid()).pw_shell could not be had (KeyError)
NoShell == "<no passwd entry>"
\* the names Path(user_shell).name may have; "sh" is not in the table
ShellNames == DOMAIN shell_configs \cup {"sh", NoShell}

\* the first file of list that is in present, from position i on; dflt when
\* there is none
RECURSIVE FirstPresent(_, _, _, _)
FirstPresent(list, present, i, dflt) ==
    IF i > Len(list) THEN dflt
    ELSE IF list[i] \in present THEN list[i]
    ELSE FirstPresent(list, present, i + 1, dflt)

\* detect_shell(): `import pwd` stands before the try and fails where there
\* is no pwd module; inside the try every exception gives ~/.bashrc
detect_shell(platform, shell_name, present) ==
    IF platform = "win32" THEN Raised
    ELSE IF shell_name = NoShell THEN "~/.bashrc"
    ELSE IF shell_name \in DOMAIN shell_configs
    THEN FirstPresent(shell_configs[shell_name], present, 1,
                      shell_configs[shell_name][1])
    ELSE FirstPresent(common_configs, present, 1, "~/.bashrc")

\* ---------------------------------------------------- build_installer.py
\* A file of the build is a sequence of segments. The installer has the code
\* before create_mdview_script ("pre"), the function ("fn"), the code from
\* install_mdview to the parser of main ("mid"), the epilog=f'''...''' lines
\* of main ("epilog") and the rest ("post"). The function embeds a text in
\* one of three forms: the placeholder of the template, the repr() literal
\* the build writes, or the triple-quoted literal of earlier builds.
NoFile == <<>>

\* an mdview.py: which text it is, its line ends, and whether repr() of it
\* holds a raw pair of ''' (the text has ''' and no double quote)
SourceTexts ==
    [id : {"v1", "v2"}, newline : {"LF", "CRLF"}, raw_triple : BOOLEAN]

NoText == [id |-> "-", newline |-> "LF", raw_triple |-> FALSE]

Code(name) == [seg |-> name, form |-> "-", text |-> NoText]
Fn(form, text) == [seg |-> "fn", form |-> form, text |-> text]

PlaceholderFn == Fn("placeholder", NoText)

\* src/installer_template.py
Template == <<Code("pre"), PlaceholderFn, Code("mid"), Code("epilog"), Code("post")>>

\* an installer as a build from the template leaves it
Built(text) ==
    <<Code("pre"), Fn("repr", text), Code("mid"), Code("epilog"), Code("post")>>

\* an installer whose function returns '''<text>'''
TripleQuoted(text) ==
    <<Code("pre"), Fn("triple", text), Code("mid"), Code("epilog"), Code("post")>>

\* read_file(): open(filepath, 'r') translates every line end to \n
read_file(text) == [text EXCEPT !.newline = "LF"]

\* the segment holds a pair of '''
HasTripleQuotes(s) ==
    \/ s.seg = "epilog"
    \/ s.seg = "fn" /\ s.form \in {"placeholder", "triple"}
    \/ s.seg = "fn" /\ s.form = "repr" /\ s.text.raw_triple

\* the first position from i on whose segment satisfies the test, 0 if none
RECURSIVE FindFrom(_, _, _)
FindFrom(content, i, fnOnly) ==
    IF i > Len(content) THEN 0
    ELSE IF (fnOnly /\ content[i].seg = "fn")
            \/ (~fnOnly /\ HasTripleQuotes(content[i])) THEN i
    ELSE FindFrom(content, i + 1, fnOnly)

\* extract_mdview_function(): from the line of the def to the end of the line
\* that closes the first ''' pair found after it; <<0, 0>> for ValueError
extract_mdview_function(content) ==
    LET start == FindFrom(content, 1, TRUE) IN
    IF start = 0 THEN <<0, 0>>
    ELSE LET stop == FindFrom(content, start, FALSE) IN
         IF stop = 0 THEN <<0, 0>> ELSE <<start, stop>>

\* content.replace(old, new) for old = content[range]
ReplaceRange(content, range, new) ==
    SubSeq(content, 1, range[1] - 1) \o <<new>>
        \o SubSeq(content, range[2] + 1, Len(content))

\* "MDVIEW_CONTENT_PLACEHOLDER" in installer_content
HasPlaceholder(content) ==
    \E i \in 1..Len(content) : content[i] = PlaceholderFn

\* lines 87-101: the template with the function put in
Embed(installer_content, mdview_content) ==
    LET mdview_function == Fn("repr", mdview_content) IN
    IF HasPlaceholder(installer_content)
    THEN [status |-> "ok",
          output |-> [i \in 1..Len(installer_content) |->
                        IF installer_content[i] = PlaceholderFn
                        THEN mdview_function ELSE installer_content[i]]]
    ELSE LET old_function == extract_mdview_function(installer_content) IN
         IF old_function = <<0, 0>>
         THEN [status |-> Raised, output |-> NoFile]
         ELSE [status |-> "ok",
               output |-> ReplaceRange(installer_content, old_function,
                                       mdview_function)]

\* build_installer() on mdview.py, installer_template.py and
\* mdview_installer.py as found (NoFile when absent): the two files it leaves
build_installer(mdview, template, existing) ==
    LET mdview_content == read_file(mdview) IN
    IF template # NoFile
    THEN LET e == Embed(template, mdview_content) IN
         [status |-> e.status, template |-> template,
          output |-> IF e.status = "ok" THEN e.output ELSE existing]
    ELSE IF existing = NoFile
    THEN [status |-> "exit 1", template |-> NoFile, output |-> NoFile]
    ELSE LET old_function == extract_mdview_function(existing) IN
         IF old_function = <<0, 0>>
         THEN [status |-> Raised, template |-> NoFile, output |-> existing]
         ELSE LET installer_content ==
                      ReplaceRange(existing, old_function, PlaceholderFn)
                  e == Embed(installer_content, mdview_content)
              IN  [status |-> e.status, template |-> installer_content,
                   output |-> IF e.status = "ok" THEN e.output ELSE existing]

\* the installers that may lie next to build_installer.py
ExistingInstallers ==
    {NoFile} \cup {Built(t) : t \in SourceTexts}
             \cup {TripleQuoted(t) : t \in {x \in SourceTexts : ~x.raw_triple}}

\* answers typed at "Enter your choice (1-3): " of prompt_reinstall
ReinstallInputs == {"1", "2", "3", "0", "", Interrupt}

\* what prompt_reinstall makes of an answer: 1 (reinstall/update) and 2
\* (install to a different location) return True, 3 and an interrupt return
\* False, anything else is asked again
prompt_reinstall(choice) ==
    IF choice = Interrupt THEN "False"
    ELSE IF choice = "1" THEN "True"
    ELSE IF choice = "2" THEN "True"
    ELSE IF choice = "3" THEN "False"
    ELSE "again"

\* check_existing_and_prompt(): True when nothing was found, else the answer
check_existing_and_prompt(found, choice) ==
    IF found = <<>> THEN "True" ELSE prompt_reinstall(choice)

FnCalls ==
    {[fn |-> "build_installer",
      in |-> [mdview |-> m, template |-> t, existing |-> e], out |-> "none"] :
        m \in SourceTexts, t \in {NoFile, Template}, e \in ExistingInstallers}
    \cup
    {[fn |-> "check_existing_and_prompt", in |-> c, out |-> "none"] :
        c \in ReinstallInputs}
    \cup
    {[fn |-> "detect_shell",
      in |-> [platform |-> pl, shell |-> s, present |-> x], out |-> "none"] :
        pl \in Platforms, s \in ShellNames, x \in SUBSET ConfigFiles}
    \cup
    {[fn |-> "find_writable_user_directory", in |-> pl, out |-> "none"] : pl \in Platforms}
    \cup
    {[fn |-> "get_mdview_version", in |-> [path |-> d, run |-> r, file |-> x],
      out |-> "none"] : d \in Dirs, r \in RunOutcomes, x \in FileOutcomes}
    \cup {[fn |-> "find_existing_mdview", in |-> p, out |-> "none"] : p \in PipxOutcomes}
    \cup {[fn |-> "candidates", in |-> pl, out |-> "none"] : pl \in Platforms}

InitFn ==
    /\ pc = "call"
    /\ hist \in FnCalls
    /\ fs \in IF hist.fn = "find_writable_user_directory" THEN ProbeFs ELSE InitFs
    /\ hist.fn \in {"detect_shell", "build_installer"}
          => fs = CHOOSE f \in InitFs : TRUE
    /\ (hist.fn = "find_writable_user_directory" /\ hist.in # "win32")
          => fs[WinUser] = Existing(TRUE, Absent)
    /\ hist.fn = "get_mdview_version" => is_file(fs, hist.in.path)
    /\ envPATH \in PathEnvs
    /\ hist.fn \notin {"find_existing_mdview", "check_existing_and_prompt"}
          => envPATH = CHOOSE P \in PathEnvs : TRUE
    /\ auto_install = FALSE /\ install_path = NoDir /\ force = FALSE
    /\ no_deps = FALSE /\ no_path_update = FALSE
    /\ pipxListed = FALSE
    /\ config = CHOOSE c \in InitConfigs : TRUE
    /\ otherWrites = {}
    /\ install_dir = NoDir
    /\ needs_sudo = FALSE
    /\ existing_installations = <<>>
    /\ exitCode = -1

\* lines 630-632 and 658-659: the entry the scan makes for a found path
Call_get_mdview_version ==
    /\ pc = "call" /\ hist.fn = "get_mdview_version"
    /\ pc' = "returned"
    /\ hist' = [hist EXCEPT !.out =
                  [path |-> hist.in.path,
                   version |-> get_mdview_version(hist.in.run, hist.in.file)]]
    /\ UNCHANGED <<args, env, fs, config, otherWrites, install_dir, needs_sudo,
                   existing_installations, exitCode>>

Call_find_existing_mdview ==
    /\ pc = "call" /\ hist.fn = "find_existing_mdview"
    /\ pc' = "returned"
    /\ existing_installations' =
          find_existing_mdview(fs, envPATH, pipx_lists_mdview(hist.in))
    /\ hist' = [hist EXCEPT !.out = find_pipx_mdview(fs, pipx_lists_mdview(hist.in))]
    /\ UNCHANGED <<args, env, fs, config, otherWrites, install_dir, needs_sudo,
                   exitCode>>

Call_candidates ==
    /\ pc = "call" /\ hist.fn = "candidates"
    /\ pc' = "returned"
    /\ hist' = [hist EXCEPT !.out = [candidates |-> candidates(hist.in),
                                     options |-> pick_options(hist.in, fs)]]
    /\ UNCHANGED <<args, env, fs, config, otherWrites, install_dir, needs_sudo,
                   existing_installations, exitCode>>

Call_find_writable_user_directory ==
    /\ pc = "call" /\ hist.fn = "find_writable_user_directory"
    /\ pc' = "returned"
    /\ hist' = [hist EXCEPT !.out = find_writable_user_directory(hist.in, fs)]
    /\ UNCHANGED <<args, env, fs, config, otherWrites, install_dir, needs_sudo,
                   existing_installations, exitCode>>

Call_detect_shell ==
    /\ pc = "call" /\ hist.fn = "detect_shell"
    /\ pc' = "returned"
    /\ hist' = [hist EXCEPT !.out = detect_shell(hist.in.platform, hist.in.shell,
                                                 hist.in.present)]
    /\ UNCHANGED <<args, env, fs, config, otherWrites, install_dir, needs_sudo,
                   existing_installations, exitCode>>

Call_check_existing_and_prompt ==
    /\ pc = "call" /\ hist.fn = "check_existing_and_prompt"
    /\ pc' = "returned"
    /\ LET found == find_existing_mdview(fs, envPATH, pipxListed) IN
         /\ existing_installations' = found
         /\ hist' = [hist EXCEPT !.out = check_existing_and_prompt(found, hist.in)]
    /\ UNCHANGED <<args, env, fs, config, otherWrites, install_dir, needs_sudo,
                   exitCode>>

Call_build_installer ==
    /\ pc = "call" /\ hist.fn = "build_installer"
    /\ pc' = "returned"
    /\ hist' = [hist EXCEPT !.out = build_installer(hist.in.mdview,
                                                    hist.in.template,
                                                    hist.in.existing)]
    /\ UNCHANGED <<args, env, fs, config, otherWrites, install_dir, needs_sudo,
                   existing_installations, exitCode>>

NextFn ==
    \/ Call_build_installer
    \/ Call_check_existing_and_prompt
    \/ Call_detect_shell
    \/ Call_find_writable_user_directory
    \/ Call_get_mdview_version
    \/ Call_find_existing_mdview
    \/ Call_candidates

SpecFn == InitFn /\ [][NextFn]_vars

Returned(fn) == pc = "returned" /\ hist.fn = fn

\* C17 as stated: when the run of mdview -h times out, the entry made for the
\* found path has the version "unknown".
C17_TimeoutGivesUnknown ==
    (Returned("get_mdview_version") /\ hist.in.run.kind = "timeout") =>
        /\ hist.out.path = hist.in.path
        /\ hist.out.version = Unknown

\* C17 amended: for every outcome of the run of mdview -h and of the file read,
\* the scan makes an entry for the found path whose version is a string and no
\* exception leaves get_mdview_version; when mdview -h times out the version
\* is the one written in the first 2000 characters of the file
\* (__version__ = "..." before # Version: ...), and "unknown" exactly when the
\* file cannot be read as text or holds neither.
C17_TimeoutFallsBackToFile ==
    Returned("get_mdview_version") =>
        /\ hist.out.path = hist.in.path
        /\ hist.out.version \in {HelpVersion, DunderVersion, CommentVersion, Unknown}
        /\ hist.in.run.kind # "exit0" =>
              LET file == hist.in.file
                  readable == file.kind = "text"
              IN  /\ hist.out.version # HelpVersion
                  /\ (hist.out.version = Unknown) <=>
                        (~readable \/ (file.dunder = NoVersion /\ file.comment = NoVersion))
                  /\ (readable /\ file.dunder # NoVersion) => hist.out.version = file.dunder
                  /\ (readable /\ file.dunder = NoVersion /\ file.comment # NoVersion)
                        => hist.out.version = file.comment

C17_Witness ==
    /\ Returned("get_mdview_version")
    /\ hist.in.run.kind = "timeout"
    /\ hist.in.run.match = HelpVersion
    /\ hist.in.file.kind = "text" /\ hist.in.file.dunder = DunderVersion
    /\ hist.out.version = DunderVersion

\* the paths a scan must report whatever pipx does: the hit of the PATH
\* lookup and every conventional directory that holds mdview
ExpectedHits(f, P) ==
    {d \in Range(common_dirs) : is_file(f, d)}
        \cup (IF shutil_which(f, P) # NoDir THEN {shutil_which(f, P)} ELSE {})

PipxUnusable(p) == ~p.which \/ p.version # "exit0" \/ p.list # "exit0"

\* C18: when pipx is not in PATH, pipx --version or pipx list ends non-zero,
\* times out or cannot be started, find_existing_mdview returns; the part
\* find_pipx_mdview adds is empty; and the result is exactly the hit of the
\* PATH lookup and the hits in the conventional directories, each once.
C18_PipxFailureDegrades ==
    (Returned("find_existing_mdview") /\ PipxUnusable(hist.in)) =>
        /\ hist.out = <<>>
        /\ Range(existing_installations) = ExpectedHits(fs, envPATH)
        /\ Len(existing_installations) = Cardinality(ExpectedHits(fs, envPATH))

C18_Witness ==
    /\ Returned("find_existing_mdview")
    /\ hist.in.which /\ hist.in.version = "exit0"
    /\ hist.in.list = "timeout" /\ hist.in.lists
    /\ is_file(fs, LocalBin) /\ is_file(fs, Custom)
    /\ Len(existing_installations) = 2

SystemPrivileged == {UsrLocalBin, OptLocalBin, UsrBin, SlashBin, WinSys}
CwdFallbacks     == {Cwd, CwdInstall}

\* a list that starts with a per-user directory, ends with the working
\* directory fallback, and has no entry twice
UserFirst(list) ==
    /\ Len(list) > 0
    /\ list[1] \notin SystemPrivileged \cup CwdFallbacks
    /\ list[Len(list)] \in CwdFallbacks
    /\ \A i, j \in 1..Len(list) : list[i] = list[j] => i = j

WritablePositions(f, c) ==
    {i \in 1..Len(c) : check_directory_writable(f, c[i], 0)}

\* C21: find_writable_user_directory returns the candidate of lowest position
\* that check_directory_writable accepts, with needs_sudo = False; it returns
\* a system directory, with needs_sudo = True, exactly when the probe accepts
\* no candidate, the ./mdview_install fallback included.
C21_FirstWritableCandidate ==
    Returned("find_writable_user_directory") =>
        LET c == candidates(hist.in)
            W == WritablePositions(fs, c)
        IN  IF W # {}
            THEN /\ \E i \in W : /\ hist.out.dir = c[i]
                                 /\ \A j \in W : i <= j
                 /\ ~hist.out.needs_sudo
                 /\ hist.out.dir \notin SystemPrivileged
            ELSE /\ hist.out.needs_sudo
                 /\ hist.out.dir \in SystemPrivileged

C21_Witness ==
    /\ Returned("find_writable_user_directory") /\ hist.in = "linux"
    /\ ~check_directory_writable(fs, HomeBin, 0)
    /\ ~check_directory_writable(fs, LocalBin, 0)
    /\ check_directory_writable(fs, DotBin, 0)
    /\ hist.out = [dir |-> DotBin, needs_sudo |-> FALSE]

\* the ways the user can cancel while the target is resolved
UserCancelled ==
    \/ hist.interrupted \in {"pick", "custom", "overwrite"}
    \/ hist.overwrite \in {"", "n", "no"}

\* C22: an interrupt at the target pick (menu or custom path) and a refusal
\* or interrupt at the overwrite prompt end the process with exit status 0,
\* and a run that ends in Abort has exit status 0 and was cancelled by the
\* user in one of these ways.
C22_CancelExitsZero ==
    /\ UserCancelled =>
          /\ Terminal /\ exitCode = 0
          /\ hist.decision = "Abort"
    /\ hist.decision = "Abort" =>
          /\ Terminal /\ exitCode = 0
          /\ UserCancelled
          /\ hist.cancelled \in {"pick", "custom", "overwrite"}

C22_Witness ==
    /\ Terminal /\ exitCode = 0
    /\ hist.decision = "Abort"
    /\ hist.interrupted = "overwrite"
    /\ hist.install = "none"

\* the numbered menu was shown
PickEntered == "pick" \in hist.prompts

\* C23: with --path the target is that path, with and without --auto, and no
\* menu is shown; without --path and with --auto the target is ~/.local/bin
\* and no menu is shown; the menu is shown exactly when neither is given.
C23_TargetPrecedence ==
    /\ install_path # NoDir =>
          /\ install_dir \in {NoDir, install_path}
          /\ pc # "select" => install_dir = install_path
          /\ ~PickEntered
    /\ (install_path = NoDir /\ auto_install) =>
          /\ install_dir \in {NoDir, LocalBin}
          /\ pc # "select" => install_dir = LocalBin
          /\ ~PickEntered
    /\ (install_path = NoDir /\ ~auto_install) =>
          /\ pc # "select" => PickEntered
          /\ install_dir # NoDir => hist.probed
    /\ pc \in {"pick", "custom"} => (install_path = NoDir /\ ~auto_install)

C23_Witness ==
    /\ install_path = Custom /\ auto_install
    /\ install_dir = Custom
    /\ hist.decision = "Proceed"
    /\ ~PickEntered

\* the spellings of the numbers 1..3 of the menu and of "enter custom path"
OptionTyped(k) == CASE k = 1 -> {"1"} [] k = 2 -> {"2", "+2"} [] k = 3 -> {"3"}
CustomTyped    == {"4"}

\* C24: at the menu of three options, a target is returned only for an answer
\* that is the number k of an option (the target is then the k-th option) or
\* for 4 followed by a non-empty path (the target is then that path); after
\* any other answer, and after an empty custom path, the menu is asked again
\* with no target selected and the filesystem as it was.
C24_InvalidInputNeverSelects ==
    /\ (PickEntered /\ install_dir # NoDir) =>
          \/ \E k \in 1..3 : /\ hist.choice \in OptionTyped(k)
                             /\ install_dir = options(hist.fs0)[k]
                             /\ hist.custom = "none"
          \/ /\ hist.choice \in CustomTyped
             /\ hist.custom \notin {"", "none", Interrupt}
             /\ install_dir = hist.custom
    /\ (PickEntered /\ hist.choice \in {"0", "5", "2.0", "abc", ""}) =>
          /\ pc = "pick" /\ install_dir = NoDir /\ fs = hist.fs0
    /\ (PickEntered /\ hist.custom = "" /\ hist.choice \in CustomTyped) =>
          /\ pc = "pick" /\ install_dir = NoDir /\ fs = hist.fs0

C24_Witness ==
    /\ pc = "pick" /\ hist.choice = "abc" /\ "custom" \in hist.prompts
    /\ install_dir = NoDir /\ fs = hist.fs0

\* C25: at "Overwrite existing installation? [y/N]" the answers y and yes, and
\* no others, give ProceedOverwrite; the empty answer, n, no and an interrupt
\* give Abort and end the run; after any other answer the prompt is asked
\* again and no decision has been made.
C25_OnlyYesOverwrites ==
    /\ hist.decision = "ProceedOverwrite" <=> hist.overwrite \in {"y", "yes"}
    /\ hist.overwrite \in {"", "n", "no", Interrupt} =>
          /\ hist.decision = "Abort" /\ hist.cancelled = "overwrite"
          /\ Terminal /\ hist.install = "none"
    /\ hist.overwrite \notin {"none", "y", "yes", "", "n", "no", Interrupt} =>
          /\ pc = "confirm" /\ hist.decision = "none"

C25_Witness ==
    /\ hist.overwrite = "yes"
    /\ hist.decision = "ProceedOverwrite"
    /\ hist.install = "ok" /\ Terminal

\* C26: when the scan reports no installation at <target>/mdview, and so
\* whenever there is no file there, should_install_to_location returns True
\* with no prompt shown, however many installations were found elsewhere and
\* whether or not one of them is the one found through PATH.
C26_OthersAreInformational ==
    /\ (hist.scanCalls > 0 /\ install_dir \notin Range(existing_installations)) =>
          /\ "overwrite" \notin hist.prompts /\ hist.overwrite = "none"
          /\ hist.decision = "Proceed"
          /\ pc # "confirm"
    /\ (hist.scanCalls > 0 /\ ~is_file(hist.fs0, install_dir)) =>
          install_dir \notin Range(existing_installations)

C26_Witness ==
    /\ hist.scanCalls > 0
    /\ Len(existing_installations) >= 2
    /\ install_dir \notin Range(existing_installations)
    /\ shutil_which(hist.fs0, envPATH) \in Range(existing_installations)
    /\ hist.decision = "Proceed"
    /\ hist.install = "ok"

\* ------------------------------------------------------ progress of a run
\* The hosts on which progress is checked: a copy of mdview may sit at
\* ~/.local/bin and at /srv/tools, the rest of the host is fixed.
LiveFs ==
    {f \in InitFs :
        /\ f[LocalBin] \in {Existing(TRUE, Absent), Existing(TRUE, Old)}
        /\ f[Custom] \in {Existing(TRUE, Old), Missing(1, FALSE)}
        /\ f[Cwd] = Existing(TRUE, Absent)
        /\ f[UsrLocalBin] = Existing(FALSE, Absent)
        /\ f[HomeBin] = Missing(1, TRUE)}

InitLive ==
    /\ Init
    /\ fs \in LiveFs
    /\ envPATH = <<LocalBin, UsrLocalBin, UsrBin>>
    /\ pipxListed = FALSE

\* main() runs one statement after the other, and each prompt that loops on
\* an invalid answer is in the end given one that leaves the loop
Fairness ==
    /\ WF_vars(Next)
    /\ SF_vars(PickChoice /\ pc' # "pick")
    /\ SF_vars(EnterCustomPath /\ pc' # "pick")
    /\ SF_vars(ConfirmOverwrite /\ pc' # "confirm")

SpecLive == InitLive /\ [][Next]_vars /\ Fairness

Decided == hist.decision \in {"Proceed", "ProceedOverwrite", "Abort"}

\* C27: every run of the installer comes to one of Proceed, ProceedOverwrite
\* and Abort, given that each looping prompt is in the end answered validly
\* or interrupted; once it has, the decision, the target and the scan are
\* never made again, and the scan is made at most once in a run.
C27_DecidedOnce ==
    /\ <>Decided
    /\ [][Decided => /\ hist'.decision = hist.decision
                     /\ install_dir' = install_dir
                     /\ hist'.scanCalls = hist.scanCalls
                     /\ existing_installations' = existing_installations
                     /\ pc' \notin {"select", "pick", "custom", "check", "confirm"}]_vars
    /\ [](hist.scanCalls <= 1)

C27_Witness ==
    /\ hist.decision = "ProceedOverwrite"
    /\ "custom" \in hist.prompts
    /\ hist.scanCalls = 1
    /\ Terminal

\* update_user_path has been called and has returned
PathReturned == hist.pathCalled /\ pc \notin {"path", "pathprompt"}

\* the directory is one of the four system directories or the config file
\* now holds a line for it
OnPathNow ==
    \/ install_dir \in {UsrLocalBin, OptLocalBin, UsrBin, SlashBin}
    \/ (config.exists /\ \E i \in 1..Len(config.lines) : config.lines[i] = install_dir)

C29_PathOnlyAfterInstall ==
    /\ hist.pathCalled =>
          /\ hist.install = "ok"
          /\ install_dir # NoDir /\ fs[install_dir].file = New
          /\ hist.decision \in {"Proceed", "ProceedOverwrite"}
          /\ ~no_path_update
    /\ (\/ hist.install \in {"failed", "permission"}
        \/ hist.decision = "Abort"
        \/ hist.deps = "failed"
        \/ no_path_update) =>
          /\ ~hist.pathCalled /\ ~hist.appendTried
          /\ "path" \notin hist.prompts
          /\ config = hist.config0

C29_Witness ==
    /\ Terminal
    /\ hist.install = "failed" /\ hist.before = Absent
    /\ ~no_path_update /\ auto_install
    /\ install_dir = LocalBin
    /\ ~is_path_in_config(config, install_dir)
    /\ ~hist.pathCalled

\* the positions of the files of list that exist
PresentPositions(list, present) == {i \in 1..Len(list) : list[i] \in present}

\* C30: detect_shell returns a path on every platform and for every shell,
\* one not in the table or not to be determined included; for a shell of the
\* table it is the file of lowest position in that shell's list that exists,
\* and the first of the list when none exists.
C30_DetectShellTotal ==
    Returned("detect_shell") =>
        /\ hist.out # Raised
        /\ hist.out \in ConfigFiles
        /\ hist.in.shell \in DOMAIN shell_configs =>
              LET list == shell_configs[hist.in.shell]
                  P    == PresentPositions(list, hist.in.present)
              IN  IF P = {} THEN hist.out = list[1]
                  ELSE \E i \in P : /\ hist.out = list[i]
                                    /\ \A j \in P : i <= j

\* C33: the artifact write comes after the dependency step, the dependency
\* step after the conflict check (or --force) has let the run proceed, and
\* that after the target was selected; when install_dependencies fails the
\* run ends with exit status 1, install_mdview was not called and every
\* <dir>/mdview is as it was.
C33_StepsInOrder ==
    /\ hist.install # "none" => hist.deps \in {"ok", "skipped"}
    /\ hist.deps # "none" =>
          /\ hist.decision \in {"Proceed", "ProceedOverwrite"}
          /\ no_deps <=> hist.deps = "skipped"
    /\ hist.decision \in {"Proceed", "ProceedOverwrite"} =>
          /\ install_dir # NoDir
          /\ force <=> hist.scanCalls = 0
    /\ hist.scanCalls > 0 => install_dir # NoDir
    /\ hist.deps = "failed" =>
          /\ Terminal /\ exitCode = 1
          /\ hist.install = "none" /\ hist.returned = "none"
          /\ FilesUntouched
          /\ ~hist.pathCalled

C33_Witness ==
    /\ hist.deps = "failed" /\ ~no_deps
    /\ hist.decision = "ProceedOverwrite"
    /\ Terminal /\ exitCode = 1
    /\ hist.install = "none"
    /\ fs[install_dir].file = Old

\* the number of lines of the shell config that put d on PATH
LinesFor(c, d) == Cardinality({i \in 1..Len(c.lines) : c.lines[i] = d})

\* C32: when update_user_path is called in a later run for a directory whose
\* line an earlier run appended to the shell config, it returns True, shows
\* no prompt and leaves the config as it is; the config never holds more
\* than one line for a directory.
C32_PathRegistrationIdempotent ==
    /\ \A d \in Dirs : LinesFor(config, d) <= 1
    /\ (hist.run >= 2 /\ PathReturned /\ LinesFor(hist.config0, install_dir) = 1) =>
          /\ hist.path_updated
          /\ ~hist.appendTried /\ "path" \notin hist.prompts
          /\ config = hist.config0

C32_Witness ==
    /\ hist.run = 2 /\ PathReturned
    /\ install_dir = Custom
    /\ hist.config0.lines = <<LocalBin, Custom>>
    /\ config = hist.config0
    /\ hist.path_updated

\* C31: when installations were found and the user answers 2, "Install to a
\* different location", what check_existing_and_prompt returns differs from
\* what it returns for 1, "Reinstall/Update", and for 3, "Cancel".
C31_RelocateDistinct ==
    (/\ Returned("check_existing_and_prompt")
     /\ existing_installations # <<>>
     /\ hist.in = "2") =>
        /\ hist.out # check_existing_and_prompt(existing_installations, "1")
        /\ hist.out # check_existing_and_prompt(existing_installations, "3")

\* what create_mdview_script() of an installer returns: the text its function
\* embeds, NoText when the file has no such function left
create_mdview_script_of(installer) ==
    IF \E i \in 1..Len(installer) : installer[i].seg = "fn"
    THEN installer[CHOOSE i \in 1..Len(installer) : installer[i].seg = "fn"].text
    ELSE NoText

\* the installer with its function taken out
RestOf(installer) == SelectSeq(installer, LAMBDA s : s.seg # "fn")

\* C34: whenever build_installer completes, create_mdview_script() of the
\* installer it wrote returns the text of mdview.py, everything else in the
\* installer is the template's code, and building again from the files it
\* left gives the same installer.
C34_FaithfulEmbedding ==
    (Returned("build_installer") /\ hist.out.status = "ok") =>
        /\ create_mdview_script_of(hist.out.output) = hist.in.mdview
        /\ RestOf(hist.out.output) = RestOf(Template)
        /\ build_installer(hist.in.mdview, hist.out.template,
                           hist.out.output).output = hist.out.output

====
